---- MODULE Spec2Model ----
(***************************************************************************)
(* Model of the rotating JSONL log writer (AsyncLogger), its retention     *)
(* sweeper (cleanup_expired_logs) and the handlers that submit lines to    *)
(* it, as found in src/src/rscls/async_logger.rs and mqtt_client.rs.       *)
(*                                                                         *)
(* Text is modelled as sequences of one-character strings.  Time is an     *)
(* integer number of clock ticks; TicksPerSec ticks make one second and    *)
(* second 0 is 2024-01-01 00:00:00 local time.  The clock stays inside     *)
(* January 2024.                                                           *)
(***************************************************************************)
EXTENDS Integers, Sequences, FiniteSets, TLC

VARIABLES
    cfg,          \* with_config arguments: topic, max_file_size, timeout_secs, log_retention_hours
    lim,          \* this run: events polled, events outstanding, clock, length of a line
    now,          \* the clock, in ticks (Instant::now / Local::now)
    handlers,     \* handle_event tasks in flight
    nextMsg,      \* number of events dispatched so far by the poll loop
    queue,        \* the mpsc channel between AsyncLogger::log and the worker
    accepted,     \* history: ids of the lines in the order send() accepted them
    alive,        \* the worker task has not panicked
    current_file, \* the worker's Option<LogFile>
    file_index,   \* the worker's file_index
    fs,           \* the log directory: file name -> lines on disk
    subdirs,      \* names of entries of the log directory that are not files
    opened,       \* history: names in the order the worker opened them
    processed,    \* history: ids of the lines the worker has finished with
    last,         \* history: what the worker did with the line it handled last
    faults,       \* number of I/O failures injected so far
    sweep,        \* the state of the running cleanup_expired_logs call
    deleted,      \* history: names removed by the sweeper
    client,       \* run_client of this topic: its place, what it polled and reported
    peer          \* the worker of another topic's AsyncLogger on the same log directory

vars == <<cfg, lim, now, handlers, nextMsg, queue, accepted, alive, current_file,
          file_index, fs, subdirs, opened, processed, last, faults, sweep, deleted,
          client, peer>>

(***************************************************************************)
(* Bounds of the model.                                                    *)
(***************************************************************************)
MaxMsgs == 3
MaxInFlight == 2
MaxFaults == 1
MaxOvertime == 1
MaxWrapMsgs == 101
MaxWrapClock == 1
MaxFullMsgs == 3
MaxPeerLines == 2
MaxGuardMsgs == 2
MaxClientEvents == 2
MaxPollErrors == 1
MaxFaultMsgs == 3

(***************************************************************************)
(* Program constants.                                                      *)
(***************************************************************************)
ChannelCapacity == 100
IndexModulus == 100
MsThreshold == 1000

TicksPerSec == 2
SecsPerHour == 60 * 60
SecsPerDay == 24 * SecsPerHour

None == [some |-> FALSE]
Some(v) == [some |-> TRUE, val |-> v]

(***************************************************************************)
(* Text.                                                                   *)
(***************************************************************************)
DigitChars == <<"0", "1", "2", "3", "4", "5", "6", "7", "8", "9">>

Digit(d) == DigitChars[d + 1]

IsDigit(c) == \E i \in 1..10 : DigitChars[i] = c

DigitValue(c) == (CHOOSE i \in 1..10 : DigitChars[i] = c) - 1

RECURSIVE Decimal(_)
Decimal(n) == IF n < 10 THEN <<Digit(n)>> ELSE Decimal(n \div 10) \o <<Digit(n % 10)>>

\* format!("{:02}", n): at least two digits, zero padded
Pad2(n) == IF n < 10 THEN <<"0", Digit(n)>> ELSE Decimal(n)

\* str::replace(from, to) for single characters
Replace(s, from, to) == [i \in 1..Len(s) |-> IF s[i] = from THEN to ELSE s[i]]

\* str::find(c): the 0-based position of the first c, or None
Find(s, c) ==
    IF \E i \in 1..Len(s) : s[i] = c
    THEN Some((CHOOSE i \in 1..Len(s) : s[i] = c /\ \A j \in 1..(i - 1) : s[j] # c) - 1)
    ELSE None

EndsWith(s, suffix) ==
    /\ Len(s) >= Len(suffix)
    /\ SubSeq(s, Len(s) - Len(suffix) + 1, Len(s)) = suffix

JsonlExt == <<".", "j", "s", "o", "n", "l">>

(***************************************************************************)
(* File names.                                                             *)
(***************************************************************************)
\* Local::now().format("%Y-%m-%d_%H-%M-%S") for a second of January 2024
FormatTimestamp(sec) ==
    LET day == 1 + (sec \div SecsPerDay)
        hh  == (sec % SecsPerDay) \div SecsPerHour
        mm  == (sec % SecsPerHour) \div 60
        ss  == sec % 60
    IN <<"2", "0", "2", "4", "-", "0", "1", "-">> \o Pad2(day) \o <<"_">>
         \o Pad2(hh) \o <<"-">> \o Pad2(mm) \o <<"-">> \o Pad2(ss)

\* topic_name.replace('/', "_")
SafeTopicName(topic) == Replace(topic, "/", "_")

\* format!("{}-{}-{:02}.jsonl", timestamp, safe_topic_name, file_index)
LogFileName(sec, topic, index) ==
    FormatTimestamp(sec) \o <<"-">> \o SafeTopicName(topic) \o <<"-">>
        \o Pad2(index) \o JsonlExt

(***************************************************************************)
(* parse_log_filename.                                                     *)
(***************************************************************************)
Fail == [ok |-> FALSE]

\* chrono's parse of s against "%Y-%m-%d %H:%M:%S": the fields it fills in.
\* The format names no offset, so the offset field stays unset.
ParseItems(s) ==
    LET num(i) == DigitValue(s[i]) * 10 + DigitValue(s[i + 1])
    IN IF /\ Len(s) = 19
          /\ \A i \in {1, 2, 3, 4, 6, 7, 9, 10, 12, 13, 15, 16, 18, 19} : IsDigit(s[i])
          /\ s[5] = "-" /\ s[8] = "-" /\ s[11] = " " /\ s[14] = ":" /\ s[17] = ":"
       THEN [ok |-> TRUE,
             sec |-> (num(9) - 1) * SecsPerDay + num(12) * SecsPerHour
                       + num(15) * 60 + num(18),
             offset |-> None]
       ELSE Fail

\* Parsed::to_datetime: a DateTime<FixedOffset> needs the offset field
ToDateTime(parsed) ==
    IF parsed.offset.some THEN Some(parsed.sec - parsed.offset.val) ELSE None

\* DateTime::parse_from_str(&ts, "%Y-%m-%d %H:%M:%S").ok()
ParseFromStr(s) ==
    LET parsed == ParseItems(s)
    IN IF parsed.ok THEN ToDateTime(parsed) ELSE None

\* (a variant of parse_log_filename that reads a failed parse as the epoch)
ParseLogFilenameOrEpoch(filename) == Some(0)

ParseLogFilename(filename) ==
    LET end_pos == Find(filename, "_")
    IN IF end_pos.some
       THEN LET timestamp_part == SubSeq(filename, 1, end_pos.val)
                ts == Replace(timestamp_part, "_", " ")
            IN ParseFromStr(ts)
       ELSE None

(***************************************************************************)
(* The log directory.                                                      *)
(***************************************************************************)
RECURSIVE DiskSize(_)
\* metadata.len(): the bytes of a file's content
DiskSize(content) ==
    IF content = <<>> THEN 0 ELSE content[1].bytes + DiskSize(Tail(content))

\* OpenOptions::new().create(true).append(true).open(path): an existing file is kept
Create(dir, name) ==
    IF name \in DOMAIN dir THEN dir
    ELSE [n \in DOMAIN dir \cup {name} |-> IF n = name THEN <<>> ELSE dir[n]]

\* BufWriter::flush: the buffered bytes reach the end of the file
FlushTo(dir, name, buf) ==
    IF name \in DOMAIN dir THEN [dir EXCEPT ![name] = @ \o buf] ELSE dir

\* remove_file(path)
Remove(dir, name) == [n \in DOMAIN dir \ {name} |-> dir[n]]

EmptyDir == [n \in {} |-> <<>>]

(***************************************************************************)
(* The worker loop of AsyncLogger::with_config, one received line at a     *)
(* time.  F is the set of I/O calls that fail while this line is handled.  *)
(***************************************************************************)
Faults == {"mkdir", "flush_idle", "open", "metadata", "flush_rot", "open_rot",
           "write", "newline", "flush"}

\* the sets of calls that may fail together while one line is handled
FaultSets == {F \in SUBSET Faults : Cardinality(F) <= MaxFaults}

NoFile == [open |-> FALSE]

LineSize(line) == line.len + 1

Timeout == cfg.timeout_secs * TicksPerSec

NowSec == now \div TicksPerSec

\* the worker's locals as it starts on a line
WorkerEntry(line) ==
    [topic |-> cfg.topic, cf |-> current_file, idx |-> file_index, fs |-> fs,
     alive |-> TRUE,
     skip |-> FALSE, opened |-> opened, hit |-> {},
     log |-> [id |-> line.id, lineSize |-> LineSize(line), dirOk |-> TRUE,
              retried |-> ~last.dirOk, openFailed |-> FALSE,
              timedOut |-> current_file.open
                             /\ now - current_file.last_write_time > Timeout,
              openBefore |-> current_file.open, indexBefore |-> file_index,
              idle |-> FALSE, lazy |-> FALSE, lazyIndex |-> 0, lazyName |-> <<>>,
              checked |-> FALSE, sizeAtCheck |-> 0, indexAtCheck |-> 0,
              nameAtCheck |-> <<>>, rot |-> FALSE,
              closedSize |-> 0, closedLastBytes |-> 0,
              appended |-> FALSE, written |-> FALSE, target |-> <<>>]]

\* (a variant of CreateDir that unwraps the result of create_dir_all)
CreateDirOrPanic(st, F) ==
    IF "mkdir" \in F
    THEN [st EXCEPT !.skip = TRUE, !.alive = FALSE, !.hit = @ \cup {"mkdir"},
                    !.log.dirOk = FALSE]
    ELSE st

\* tokio::fs::create_dir_all(&dir_path), and `continue` when it fails
CreateDir(st, F) ==
    IF "mkdir" \in F
    THEN [st EXCEPT !.skip = TRUE, !.hit = @ \cup {"mkdir"}, !.log.dirOk = FALSE]
    ELSE st

\* file.last_write_time.elapsed() > timeout
TimedOut(cf) == now - cf.last_write_time > Timeout

\* writer.flush() of a writer being given up: a failure loses what is buffered,
\* and with nothing buffered a failure and a success leave the same state
FlushFails(cf, f, F) == f \in F /\ cf.buf # <<>>

\* the idle rotation: flush, file_index = 0, current_file = None
IdleCheck(st, F) ==
    IF ~st.skip /\ st.cf.open /\ TimedOut(st.cf)
    THEN [st EXCEPT
            !.fs = IF FlushFails(st.cf, "flush_idle", F) THEN @
                   ELSE FlushTo(@, st.cf.name, st.cf.buf),
            !.hit = IF FlushFails(st.cf, "flush_idle", F) THEN @ \cup {"flush_idle"} ELSE @,
            !.idx = 0,
            !.cf = NoFile,
            !.log.idle = TRUE]
    ELSE st

\* the lazy open: a name from the current time and file_index, size from metadata
LazyOpen(st, F) ==
    IF ~st.skip /\ ~st.cf.open
    THEN LET filename == LogFileName(NowSec, st.topic, st.idx)
             dir == Create(st.fs, filename)
         IN IF "open" \in F
            THEN [st EXCEPT !.alive = FALSE, !.hit = @ \cup {"open"},
                            !.log.openFailed = TRUE]
            ELSE IF "metadata" \in F
            THEN [st EXCEPT !.fs = dir, !.alive = FALSE, !.hit = @ \cup {"metadata"}]
            ELSE [st EXCEPT
                    !.fs = dir,
                    !.cf = [open |-> TRUE, name |-> filename, buf |-> <<>>,
                            current_size |-> DiskSize(dir[filename]),
                            file_index |-> st.idx, last_write_time |-> now],
                    !.opened = Append(@, [name |-> filename, sec |-> NowSec]),
                    !.log.lazy = TRUE,
                    !.log.lazyIndex = st.idx,
                    !.log.lazyName = filename]
    ELSE st

\* logfile.current_size + line_size >= *max_file_size
NeedsRotation(current_size, line_size) == current_size + line_size >= cfg.max_file_size

\* (a variant of NextIndex that never wraps)
NextIndexNoWrap(index) == index + 1

\* file_index = (file_index + 1) % 100
NextIndex(index) == (index + 1) % IndexModulus

\* the size rotation: flush, next index, open, a fresh writer, current_size = 0
SizeRotate(st, line, F) ==
    IF ~st.skip /\ st.alive
    THEN IF NeedsRotation(st.cf.current_size, LineSize(line))
         THEN LET failed == FlushFails(st.cf, "flush_rot", F)
                  dir == IF failed THEN st.fs ELSE FlushTo(st.fs, st.cf.name, st.cf.buf)
                  hit == IF failed THEN st.hit \cup {"flush_rot"} ELSE st.hit
                  index == NextIndex(st.idx)
                  filename == LogFileName(NowSec, st.topic, index)
                  closed == IF st.cf.name \in DOMAIN dir THEN dir[st.cf.name] ELSE <<>>
                  log == [st.log EXCEPT
                            !.checked = TRUE, !.sizeAtCheck = st.cf.current_size,
                            !.indexAtCheck = st.idx, !.nameAtCheck = st.cf.name,
                            !.rot = TRUE, !.closedSize = DiskSize(closed),
                            !.closedLastBytes =
                                IF closed = <<>> THEN 0 ELSE closed[Len(closed)].bytes]
              IN IF "open_rot" \in F
                 THEN [st EXCEPT !.fs = dir, !.idx = index, !.alive = FALSE,
                                 !.hit = hit \cup {"open_rot"},
                                 !.log = [log EXCEPT !.openFailed = TRUE]]
                 ELSE [st EXCEPT
                         !.fs = Create(dir, filename),
                         !.idx = index,
                         !.hit = hit,
                         !.cf = [@ EXCEPT !.name = filename, !.buf = <<>>,
                                          !.current_size = 0, !.file_index = index],
                         !.opened = Append(@, [name |-> filename, sec |-> NowSec]),
                         !.log = log]
         ELSE [st EXCEPT !.log.checked = TRUE, !.log.sizeAtCheck = st.cf.current_size,
                         !.log.indexAtCheck = st.idx, !.log.nameAtCheck = st.cf.name]
    ELSE st

\* write_all(line), write_all("\n"), flush, then the size and the time of the write
WriteLine(st, line, F) ==
    IF ~st.skip /\ st.alive
    THEN IF "write" \in F
         THEN [st EXCEPT !.skip = TRUE, !.hit = @ \cup {"write"},
                         !.log.target = st.cf.name]
         ELSE IF "newline" \in F
         THEN [st EXCEPT !.skip = TRUE, !.hit = @ \cup {"newline"},
                         !.cf.buf = Append(@, [id |-> line.id, bytes |-> line.len]),
                         !.log.target = st.cf.name]
         ELSE LET buf == Append(st.cf.buf, [id |-> line.id, bytes |-> LineSize(line)])
                  failed == "flush" \in F
              IN [st EXCEPT
                    !.fs = IF failed THEN @ ELSE FlushTo(@, st.cf.name, buf),
                    !.hit = IF failed THEN @ \cup {"flush"} ELSE @,
                    !.cf = [@ EXCEPT !.buf = IF failed THEN buf ELSE <<>>,
                                     !.current_size = @ + LineSize(line),
                                     !.last_write_time = now],
                    !.log.appended = TRUE,
                    !.log.written = ~failed,
                    !.log.target = st.cf.name]
    ELSE st

\* one iteration of `while let Some(line) = rx.recv().await`, from the locals
\* `entry`: the steps of the loop body in their order, each one taking the
\* locals the step before it left
ProcessFrom(entry, line, F) ==
    CHOOSE done \in
        {WriteLine(sized, line, F) : sized \in
            {SizeRotate(file, line, F) : file \in
                {LazyOpen(idle, F) : idle \in
                    {IdleCheck(dir, F) : dir \in {CreateDir(entry, F)}}}}} : TRUE

\* one iteration of the loop of this topic's worker
ProcessLine(line, F) == ProcessFrom(WorkerEntry(line), line, F)

\* rx.recv(): the oldest line of the channel
Recv(q) == Head(q)

WorkerStep(F) ==
    /\ alive
    /\ queue # <<>>
    /\ faults + Cardinality(F) <= MaxFaults
    /\ LET line == Recv(queue)
           st == ProcessLine(line, F)
       IN /\ st.hit = F
          /\ faults' = faults + Cardinality(F)
          /\ alive' = st.alive
          \* a panic drops the task: its writer, and the receiver with what it holds
          /\ queue' = IF st.alive THEN Tail(queue) ELSE <<>>
          /\ current_file' = IF st.alive THEN st.cf ELSE NoFile
          /\ file_index' = st.idx
          /\ fs' = st.fs
          /\ opened' = st.opened
          /\ processed' = processed \cup {line.id}
          /\ last' = st.log
    /\ UNCHANGED <<cfg, lim, now, handlers, nextMsg, accepted, subdirs, sweep, deleted, client, peer>>

(***************************************************************************)
(* The handlers: MqttClient::handle_event spawns one task per event, and   *)
(* the task of a Publish builds the line and awaits AsyncLogger::log.      *)
(***************************************************************************)
LineLens == {79, 199}

\* run_client has subscribed and is in its poll loop
Polling == [pc |-> "polling", sub |-> "ok", errors |-> 0, tasks |-> {}, lines |-> [i \in {} |-> <<>>]]

\* (a variant of Spawn: a poll loop that awaits the tasks it spawned)
SpawnWhenIdle ==
    /\ client.pc = "polling"
    /\ handlers = {}
    /\ nextMsg < lim.msgs
    /\ Cardinality(handlers) + Len(queue) < lim.inflight
    /\ nextMsg' = nextMsg + 1
    /\ handlers' = handlers \cup {[id |-> nextMsg + 1, len |-> lim.len]}

\* the poll loop takes the next event of the broker; the task handle_event spawns
\* for a Publish will submit a line of lim.len bytes
Spawn ==
    /\ client.pc = "polling"
    /\ nextMsg < lim.msgs
    /\ Cardinality(handlers) + Len(queue) < lim.inflight
    /\ nextMsg' = nextMsg + 1
    /\ handlers' = handlers \cup {[id |-> nextMsg + 1, len |-> lim.len]}

\* run_client: handle_event(event, logger.clone()) for a polled Publish
Dispatch ==
    /\ Spawn
    /\ UNCHANGED <<cfg, lim, now, queue, accepted, alive, current_file, file_index, fs,
                   subdirs, opened, processed, last, faults, sweep, deleted, client, peer>>

\* self.tx.send(json_line.to_string()).await
Send(q, line) == Append(q, line)

\* (a variant of HasRoom for a channel without a capacity)
HasRoomAlways(q) == TRUE

\* mpsc::channel::<String>(100): send() gets a permit while fewer than 100 lines wait
HasRoom(q) == Len(q) < ChannelCapacity

\* (a variant of Submit whose send waits forever once the receiver is gone)
SubmitOrWait(h) ==
    /\ h \in handlers
    /\ alive
    /\ HasRoom(queue)
    /\ queue' = Send(queue, [id |-> h.id, len |-> h.len])
    /\ accepted' = Append(accepted, h.id)
    /\ handlers' = handlers \ {h}
    /\ UNCHANGED <<cfg, lim, now, nextMsg, alive, current_file, file_index, fs, subdirs,
                   opened, processed, last, faults, sweep, deleted, client, peer>>

\* The spawned task of a Publish: it builds json_line without suspending and
\* awaits AsyncLogger::log, which is accepted while the channel has room, an
\* error once the receiver is gone, and suspended otherwise
Submit(h) ==
    /\ h \in handlers
    /\ \/ /\ alive
          /\ HasRoom(queue)
          /\ queue' = Send(queue, [id |-> h.id, len |-> h.len])
          /\ accepted' = Append(accepted, h.id)
       \/ /\ ~alive
          /\ UNCHANGED <<queue, accepted>>
    /\ handlers' = handlers \ {h}
    /\ UNCHANGED <<cfg, lim, now, nextMsg, alive, current_file, file_index, fs, subdirs,
                   opened, processed, last, faults, sweep, deleted, client, peer>>

\* time passes
Tick ==
    /\ now < lim.clock
    /\ now' = now + 1
    /\ UNCHANGED <<cfg, lim, handlers, nextMsg, queue, accepted, alive, current_file,
                   file_index, fs, subdirs, opened, processed, last, faults, sweep,
                   deleted, client, peer>>

(***************************************************************************)
(* The engine's specification.                                             *)
(***************************************************************************)
Topic == <<"s", "/", "a">>

MaxFileSizes == {200}

TimeoutSecs == {0, 1}


\* no other topic is configured
NoPeer == [topic |-> <<>>, cf |-> NoFile, idx |-> 0, opened |-> <<>>, lines |-> 0]

\* no cleanup_expired_logs call is running
NoSweep == [pc |-> "idle", now |-> 0, started |-> FALSE, listed |-> {}, pending |-> {},
            examined |-> {}, failed |-> {}, stoppedBy |-> "", cleaned_count |-> 0,
            cleaned_size |-> 0]

NoLog == [id |-> 0, lineSize |-> 0, dirOk |-> TRUE, retried |-> FALSE,
          openFailed |-> FALSE, timedOut |-> FALSE,
          openBefore |-> FALSE, indexBefore |-> 0,
          idle |-> FALSE, lazy |-> FALSE, lazyIndex |-> 0, lazyName |-> <<>>,
          checked |-> FALSE, sizeAtCheck |-> 0, indexAtCheck |-> 0, nameAtCheck |-> <<>>,
          rot |-> FALSE, closedSize |-> 0, closedLastBytes |-> 0,
          appended |-> FALSE, written |-> FALSE, target |-> <<>>]

\* the state with_config leaves: an empty channel, no file, file_index 0
EngineStart ==
    /\ handlers = {}
    /\ nextMsg = 0
    /\ queue = <<>>
    /\ accepted = <<>>
    /\ alive = TRUE
    /\ current_file = NoFile
    /\ file_index = 0
    /\ opened = <<>>
    /\ processed = {}
    /\ last = NoLog
    /\ faults = 0
    /\ sweep = NoSweep
    /\ deleted = {}
    /\ client = Polling
    /\ peer = NoPeer

\* a fresh log directory at the start of the clock
EngineInit ==
    /\ now = 0
    /\ fs = EmptyDir
    /\ subdirs = {}
    /\ EngineStart

Init ==
    /\ cfg \in [topic : {Topic}, max_file_size : MaxFileSizes, timeout_secs : TimeoutSecs,
                log_retention_hours : {0}]
    /\ lim \in [msgs : {MaxMsgs}, inflight : {MaxInFlight}, clock : {Timeout + MaxOvertime},
               len : LineLens]
    /\ EngineInit

Next ==
    \/ Dispatch
    \/ \E h \in handlers : Submit(h)
    \/ \E F \in FaultSets : WorkerStep(F)
    \/ Tick

Spec == Init /\ [][Next]_vars

(***************************************************************************)
(* Long runs of the engine: every line rotates (max_file_size = 0), no I/O *)
(* call fails, and the poll loop waits for the line before.                *)
(***************************************************************************)
WrapInit ==
    /\ cfg = [topic |-> Topic, max_file_size |-> 0, timeout_secs |-> 1,
              log_retention_hours |-> 0]
    /\ lim = [msgs |-> MaxWrapMsgs, inflight |-> 1, clock |-> MaxWrapClock, len |-> 79]
    /\ EngineInit

WrapNext ==
    \/ Dispatch
    \/ \E h \in handlers : Submit(h)
    \/ WorkerStep({})
    \/ Tick

SpecWrap == WrapInit /\ [][WrapNext]_vars

(***************************************************************************)
(* Two topics: main builds one client and one AsyncLogger per configured   *)
(* topic, all on the same log directory and with the same limits.  The     *)
(* worker of the other topic is modelled from the lines its channel hands  *)
(* it; its I/O calls do not fail.                                          *)
(***************************************************************************)
\* the locals of the other topic's worker as it starts on a line
PeerEntry(line) ==
    [topic |-> peer.topic, cf |-> peer.cf, idx |-> peer.idx, fs |-> fs, alive |-> TRUE,
     skip |-> FALSE, opened |-> peer.opened, hit |-> {}, log |-> NoLog]

\* one iteration of the loop of the other topic's worker; its lines carry
\* negative ids
PeerStep ==
    /\ peer.topic # <<>>
    /\ peer.lines < MaxPeerLines
    /\ LET line == [id |-> -(peer.lines + 1), len |-> lim.len]
           st == ProcessFrom(PeerEntry(line), line, {})
       IN /\ peer' = [peer EXCEPT !.cf = st.cf, !.idx = st.idx, !.opened = st.opened,
                                  !.lines = @ + 1]
          /\ fs' = st.fs
    /\ UNCHANGED <<cfg, lim, now, handlers, nextMsg, queue, accepted, alive, current_file,
                   file_index, subdirs, opened, processed, last, faults, sweep, deleted,
                   client>>

\* topics other than Topic: one that differs from it only in "/" against "_"
PeerTopics == {<<"s", "_", "a">>, <<"s", "/", "b">>, <<"t">>}

TopicsInit ==
    /\ cfg = [topic |-> Topic, max_file_size |-> 200, timeout_secs |-> 1,
              log_retention_hours |-> 0]
    /\ lim = [msgs |-> MaxMsgs, inflight |-> MaxInFlight, clock |-> Timeout + MaxOvertime,
              len |-> 79]
    /\ now = 0
    /\ fs = EmptyDir
    /\ subdirs = {}
    /\ handlers = {}
    /\ nextMsg = 0
    /\ queue = <<>>
    /\ accepted = <<>>
    /\ alive = TRUE
    /\ current_file = NoFile
    /\ file_index = 0
    /\ opened = <<>>
    /\ processed = {}
    /\ last = NoLog
    /\ faults = 0
    /\ sweep = NoSweep
    /\ deleted = {}
    /\ client = Polling
    /\ peer \in {[NoPeer EXCEPT !.topic = t] : t \in PeerTopics}

TopicsNext ==
    \/ Dispatch
    \/ \E h \in handlers : Submit(h)
    \/ WorkerStep({})
    \/ PeerStep
    \/ Tick

SpecTopics == TopicsInit /\ [][TopicsNext]_vars

(***************************************************************************)
(* A full channel: the worker has not run yet and one line less than the   *)
(* capacity waits in the channel when the next events are polled.  No I/O  *)
(* call fails.                                                             *)
(***************************************************************************)
Backlog == ChannelCapacity - 1

FullInit ==
    /\ cfg = [topic |-> Topic, max_file_size |-> 200, timeout_secs |-> 1,
              log_retention_hours |-> 0]
    /\ lim = [msgs |-> Backlog + MaxFullMsgs, inflight |-> Backlog + MaxFullMsgs,
              clock |-> 0, len |-> 79]
    /\ now = 0
    /\ fs = EmptyDir
    /\ subdirs = {}
    /\ handlers = {}
    /\ nextMsg = Backlog
    /\ queue = [i \in 1..Backlog |-> [id |-> i, len |-> 79]]
    /\ accepted = [i \in 1..Backlog |-> i]
    /\ alive = TRUE
    /\ current_file = NoFile
    /\ file_index = 0
    /\ opened = <<>>
    /\ processed = {}
    /\ last = NoLog
    /\ faults = 0
    /\ sweep = NoSweep
    /\ deleted = {}
    /\ client = Polling
    /\ peer = NoPeer

FullNext ==
    \/ Dispatch
    \/ \E h \in handlers : Submit(h)
    \/ WorkerStep({})

SpecFull == FullInit /\ [][FullNext]_vars

\* the events polled on top of the backlog
LateIds == (Backlog + 1)..(Backlog + MaxFullMsgs)

\* rx.recv() hands the worker the oldest line
Dequeue == alive /\ queue # <<>> /\ queue' = Tail(queue)

\* The worker task runs whenever a line waits in the channel, and the channel
\* serves its waiting senders in turn, so a sender that finds room again and
\* again gets its permit.
FullFairness ==
    /\ WF_queue(Dequeue)
    /\ \A i \in LateIds : SF_vars(Submit([id |-> i, len |-> 79]))

SpecFullLive == FullInit /\ [][FullNext]_vars /\ FullFairness

(***************************************************************************)
(* The worker under failing calls, next to the worker of another topic:    *)
(* every line is of 199 bytes, so that each one meets the size rotation.   *)
(***************************************************************************)
FaultInit ==
    /\ cfg = [topic |-> Topic, max_file_size |-> 200, timeout_secs |-> 1,
              log_retention_hours |-> 0]
    /\ lim = [msgs |-> MaxFaultMsgs, inflight |-> MaxInFlight, clock |-> 0, len |-> 199]
    /\ now = 0
    /\ fs = EmptyDir
    /\ subdirs = {}
    /\ handlers = {}
    /\ nextMsg = 0
    /\ queue = <<>>
    /\ accepted = <<>>
    /\ alive = TRUE
    /\ current_file = NoFile
    /\ file_index = 0
    /\ opened = <<>>
    /\ processed = {}
    /\ last = NoLog
    /\ faults = 0
    /\ sweep = NoSweep
    /\ deleted = {}
    /\ client = Polling
    /\ peer = [NoPeer EXCEPT !.topic = <<"t">>]

FaultNext ==
    \/ Dispatch
    \/ \E h \in handlers : Submit(h)
    \/ \E F \in FaultSets : WorkerStep(F)
    \/ PeerStep

SpecFaults == FaultInit /\ [][FaultNext]_vars

(***************************************************************************)
(* The client of one topic: run_client subscribes and polls, handle_event  *)
(* spawns a task per event, and the task of a Publish builds json_line.    *)
(* A numeric timestamp is counted in units of 10^8, so that 1e11 is        *)
(* MsThreshold units, and the second it denotes in units of 10^5 seconds,  *)
(* so that a division by 1000 keeps the number and no division multiplies  *)
(* it by 1000.                                                             *)
(***************************************************************************)
\* run_client before client.subscribe returns
Subscribing == [Polling EXCEPT !.pc = "subscribing", !.sub = "pending"]

\* (a variant of Subscribe that polls whatever subscribe returned)
SubscribeAnyway(ok) ==
    /\ client.pc = "subscribing"
    /\ client' = [client EXCEPT !.pc = "polling", !.sub = IF ok THEN "ok" ELSE "failed"]
    /\ UNCHANGED <<cfg, lim, now, handlers, nextMsg, queue, accepted, alive, current_file,
                   file_index, fs, subdirs, opened, processed, last, faults, sweep, deleted,
                   peer>>

\* client.subscribe(&topic): run_client returns when it fails
Subscribe(ok) ==
    /\ client.pc = "subscribing"
    /\ client' = [client EXCEPT !.pc = IF ok THEN "polling" ELSE "stopped",
                                 !.sub = IF ok THEN "ok" ELSE "failed"]
    /\ UNCHANGED <<cfg, lim, now, handlers, nextMsg, queue, accepted, alive, current_file,
                   file_index, fs, subdirs, opened, processed, last, faults, sweep, deleted,
                   peer>>

\* next_event() returns Err: the error is printed and the loop goes on
PollError ==
    /\ client.pc = "polling"
    /\ client.errors < MaxPollErrors
    /\ client' = [client EXCEPT !.errors = @ + 1]
    /\ UNCHANGED <<cfg, lim, now, handlers, nextMsg, queue, accepted, alive, current_file,
                   file_index, fs, subdirs, opened, processed, last, faults, sweep, deleted,
                   peer>>

\* the message recorded on a parse failure: "json" and the four characters
\* U+89E3 U+6790 U+5931 U+8D25, each written here by its code point
JsonErrorMessage == <<"j", "s", "o", "n", "U+89E3", "U+6790", "U+5931", "U+8D25">>

\* numeric timestamps of payloads, in units of 10^8
TimestampSamples == {-1001, -1000, -17, 0, 17, 999, 1000, 1001, 17000}

\* payloads of a Publish: not JSON, JSON without a numeric timestamp, JSON with one
Payloads ==
    {[json |-> FALSE, ts |-> None], [json |-> TRUE, ts |-> None]}
        \cup {[json |-> TRUE, ts |-> Some(t)] : t \in TimestampSamples}

\* secs = if ts > 1e11 { ts / 1000.0 } else { ts }, in units of 10^5 seconds
TimestampSecs(ts) == IF ts > MsThreshold THEN ts ELSE ts * 1000

\* ext_part: the formatted second of the timestamp, or {}
ExtPart(payload) ==
    IF payload.json /\ payload.ts.some
    THEN [timestamp |-> Some(TimestampSecs(payload.ts.val))]
    ELSE [timestamp |-> None]

\* raw_part: the payload as parsed, or the object with the error message
RawPart(payload) ==
    IF payload.json THEN [value |-> Some(payload), message |-> <<>>]
    ELSE [value |-> None, message |-> JsonErrorMessage]

\* json_line = {"ext":ext_part,"raw":raw_part}
JsonLine(payload) == [payload |-> payload, ext |-> ExtPart(payload), raw |-> RawPart(payload)]

\* the poll loop takes a Publish with this payload; its task will submit json_line
PollPublish(payload) ==
    /\ Spawn
    /\ client' = [client EXCEPT
                    !.lines = [i \in DOMAIN @ \cup {nextMsg + 1} |->
                                  IF i = nextMsg + 1 THEN JsonLine(payload) ELSE @[i]]]
    /\ UNCHANGED <<cfg, lim, now, queue, accepted, alive, current_file, file_index, fs,
                   subdirs, opened, processed, last, faults, sweep, deleted, peer>>

\* events that are no Publish: a ConnAck, another incoming packet, an outgoing one
OtherEvents == {"connack", "incoming", "outgoing"}

\* the poll loop takes an event that is no Publish; its task submits nothing
PollOther(kind) ==
    /\ client.pc = "polling"
    /\ nextMsg < lim.msgs
    /\ nextMsg' = nextMsg + 1
    /\ client' = [client EXCEPT !.tasks = @ \cup {[id |-> nextMsg + 1, kind |-> kind]}]
    /\ UNCHANGED <<cfg, lim, now, handlers, queue, accepted, alive, current_file,
                   file_index, fs, subdirs, opened, processed, last, faults, sweep, deleted,
                   peer>>

\* the task of an event that is no Publish ends
Finish(task) ==
    /\ task \in client.tasks
    /\ client' = [client EXCEPT !.tasks = @ \ {task}]
    /\ UNCHANGED <<cfg, lim, now, handlers, nextMsg, queue, accepted, alive, current_file,
                   file_index, fs, subdirs, opened, processed, last, faults, sweep, deleted,
                   peer>>

\* main after ctrl_c: handle.abort() ends run_client wherever it is
Abort ==
    /\ client.pc \in {"subscribing", "polling"}
    /\ client' = [client EXCEPT !.pc = "aborted"]
    /\ UNCHANGED <<cfg, lim, now, handlers, nextMsg, queue, accepted, alive, current_file,
                   file_index, fs, subdirs, opened, processed, last, faults, sweep, deleted,
                   peer>>

ClientInit ==
    /\ cfg = [topic |-> Topic, max_file_size |-> 200, timeout_secs |-> 1,
              log_retention_hours |-> 0]
    /\ lim = [msgs |-> MaxClientEvents, inflight |-> MaxInFlight, clock |-> 0, len |-> 79]
    /\ now = 0
    /\ fs = EmptyDir
    /\ subdirs = {}
    /\ handlers = {}
    /\ nextMsg = 0
    /\ queue = <<>>
    /\ accepted = <<>>
    /\ alive = TRUE
    /\ current_file = NoFile
    /\ file_index = 0
    /\ opened = <<>>
    /\ processed = {}
    /\ last = NoLog
    /\ faults = 0
    /\ sweep = NoSweep
    /\ deleted = {}
    /\ client = Subscribing
    /\ peer = [NoPeer EXCEPT !.topic = <<"t">>]

ClientNext ==
    \/ \E ok \in BOOLEAN : Subscribe(ok)
    \/ PollError
    \/ Dispatch
    \/ \E kind \in OtherEvents : PollOther(kind)
    \/ \E task \in client.tasks : Finish(task)
    \/ \E h \in handlers : Submit(h)
    \/ WorkerStep({})
    \/ PeerStep
    \/ Abort

SpecClient == ClientInit /\ [][ClientNext]_vars

\* a subscribed client whose events are followed with their payloads
PayloadInit ==
    /\ cfg = [topic |-> Topic, max_file_size |-> 200, timeout_secs |-> 1,
              log_retention_hours |-> 0]
    /\ lim = [msgs |-> MaxClientEvents, inflight |-> MaxInFlight, clock |-> 0, len |-> 79]
    /\ EngineInit

PayloadNext ==
    \/ \E payload \in Payloads : PollPublish(payload)
    \/ \E kind \in OtherEvents : PollOther(kind)
    \/ \E task \in client.tasks : Finish(task)
    \/ \E h \in handlers : Submit(h)
    \/ WorkerStep({})

SpecPayloads == PayloadInit /\ [][PayloadNext]_vars

(***************************************************************************)
(* cleanup_expired_logs, one directory entry at a time.                    *)
(***************************************************************************)
\* chrono::Duration::hours(retention_hours), in ticks
Threshold == cfg.log_retention_hours * SecsPerHour * TicksPerSec

\* file_time < now - threshold
Expired(file_time, at) == file_time * TicksPerSec < at - Threshold

\* the checks an entry passes before remove_file is called on it
ShouldRemove(entry, at) ==
    /\ entry \in DOMAIN fs
    /\ EndsWith(entry, JsonlExt)
    /\ ParseLogFilename(entry).some
    /\ Expired(ParseLogFilename(entry).val, at)

\* the call, up to the first entry: the retention guard, read_dir, Local::now()
CleanupStart(readOk) ==
    /\ sweep.pc = "idle"
    /\ sweep' = IF cfg.log_retention_hours <= 0 \/ ~readOk
                THEN [NoSweep EXCEPT !.pc = "done", !.now = now]
                ELSE [NoSweep EXCEPT !.pc = "scan", !.now = now, !.started = TRUE,
                                     !.listed = DOMAIN fs \cup subdirs,
                                     !.pending = DOMAIN fs \cup subdirs]
    /\ UNCHANGED <<cfg, lim, now, handlers, nextMsg, queue, accepted, alive,
                   current_file, file_index, fs, subdirs, opened, processed, last,
                   faults, deleted, client, peer>>

\* one turn of `while let Ok(Some(entry)) = entries.next_entry().await`
CleanupEntry(entry, removeOk) ==
    /\ sweep.pc = "scan"
    /\ entry \in sweep.pending
    /\ LET remove == ShouldRemove(entry, sweep.now)
       IN /\ sweep' = [sweep EXCEPT
                         !.pending = @ \ {entry},
                         !.examined = @ \cup {entry},
                         !.failed = IF remove /\ ~removeOk THEN @ \cup {entry} ELSE @,
                         !.cleaned_size = IF remove THEN @ + DiskSize(fs[entry]) ELSE @,
                         !.cleaned_count = IF remove /\ removeOk THEN @ + 1 ELSE @]
          /\ fs' = IF remove /\ removeOk THEN Remove(fs, entry) ELSE fs
          /\ deleted' = IF remove /\ removeOk THEN deleted \cup {entry} ELSE deleted
    /\ UNCHANGED <<cfg, lim, now, handlers, nextMsg, queue, accepted, alive,
                   current_file, file_index, subdirs, opened, processed, last, faults, client, peer>>

\* the loop ends after the last entry, or at an entry that cannot be read
CleanupEnd(nextOk) ==
    /\ sweep.pc = "scan"
    /\ sweep.pending = {} \/ ~nextOk
    /\ sweep' = [sweep EXCEPT !.pc = "done",
                               !.stoppedBy = IF sweep.pending = {} THEN "end"
                                             ELSE "next_entry"]
    /\ UNCHANGED <<cfg, lim, now, handlers, nextMsg, queue, accepted, alive,
                   current_file, file_index, fs, subdirs, opened, processed, last,
                   faults, deleted, client, peer>>

(***************************************************************************)
(* One sweep over a directory of old files.                                *)
(***************************************************************************)
RetentionHours == {-1, 0, 24}

AgesHours == {1, 23, 24, 25, 48}

\* the sweep runs 50 hours into the clock
SweepAtSec == 50 * SecsPerHour

AgedName(hours) == LogFileName(SweepAtSec - hours * SecsPerHour, Topic, 0)

NotesName == <<"n", "o", "t", "e", "s", ".", "j", "s", "o", "n", "l">>

NoDateName == <<"a", "_", "b", ".", "j", "s", "o", "n", "l">>

TextName == FormatTimestamp(0) \o <<"-", "s", "_", "a", "-", "0", "0", ".", "t", "x", "t">>

OldDirName == LogFileName(0, Topic, 1)

CandidateFiles == {AgedName(h) : h \in AgesHours} \cup {NotesName, NoDateName, TextName}

OldContent == <<[id |-> 0, bytes |-> 80]>>

SweepInit ==
    /\ cfg \in [topic : {Topic}, max_file_size : MaxFileSizes, timeout_secs : {1},
                log_retention_hours : RetentionHours]
    /\ lim = [msgs |-> 0, inflight |-> 0, clock |-> 0, len |-> 0]
    /\ now = SweepAtSec * TicksPerSec
    /\ fs \in {[n \in S |-> OldContent] : S \in SUBSET CandidateFiles}
    /\ subdirs \in SUBSET {OldDirName}
    /\ EngineStart

SweepNext ==
    \/ \E readOk \in BOOLEAN : CleanupStart(readOk)
    \/ \E entry \in sweep.pending, removeOk \in BOOLEAN : CleanupEntry(entry, removeOk)
    \/ \E nextOk \in BOOLEAN : CleanupEnd(nextOk)

SpecSweep == SweepInit /\ [][SweepNext]_vars

(***************************************************************************)
(* The sweeper next to a busy worker: 50 hours into the clock the worker   *)
(* still writes to a file it opened two hours ago, the retention is one    *)
(* hour, and the hourly cleanup_expired_logs call is due.  No I/O call of  *)
(* the worker fails.                                                       *)
(***************************************************************************)
LongOpenName == LogFileName(SweepAtSec - 2 * SecsPerHour, Topic, 0)

GuardInit ==
    /\ cfg = [topic |-> Topic, max_file_size |-> 200, timeout_secs |-> 1,
              log_retention_hours |-> 1]
    /\ now = SweepAtSec * TicksPerSec
    /\ lim = [msgs |-> MaxGuardMsgs, inflight |-> MaxInFlight,
              clock |-> now + Timeout + MaxOvertime, len |-> 79]
    /\ fs \in {[n \in S \cup {LongOpenName} |-> OldContent] : S \in SUBSET {AgedName(48)}}
    /\ subdirs = {}
    /\ handlers = {}
    /\ nextMsg = 0
    /\ queue = <<>>
    /\ accepted = <<>>
    /\ alive = TRUE
    /\ current_file = [open |-> TRUE, name |-> LongOpenName, buf |-> <<>>,
                       current_size |-> DiskSize(OldContent), file_index |-> 0,
                       last_write_time |-> now]
    /\ file_index = 0
    /\ opened = <<[name |-> LongOpenName, sec |-> SweepAtSec - 2 * SecsPerHour]>>
    /\ processed = {}
    /\ last = NoLog
    /\ faults = 0
    /\ sweep = NoSweep
    /\ deleted = {}
    /\ client = Polling
    /\ peer = NoPeer

GuardNext ==
    \/ Dispatch
    \/ \E h \in handlers : Submit(h)
    \/ WorkerStep({})
    \/ Tick
    \/ \E readOk \in BOOLEAN : CleanupStart(readOk)
    \/ \E entry \in sweep.pending, removeOk \in BOOLEAN : CleanupEntry(entry, removeOk)
    \/ \E nextOk \in BOOLEAN : CleanupEnd(nextOk)

SpecGuard == GuardInit /\ [][GuardNext]_vars

(***************************************************************************)
(* What the log files hold.                                                *)
(***************************************************************************)
RECURSIVE Distinct(_)
\* a sequence without its repetitions, each element at its first place
Distinct(seq) ==
    IF seq = <<>> THEN <<>>
    ELSE LET front == Distinct(SubSeq(seq, 1, Len(seq) - 1))
             x == seq[Len(seq)]
         IN IF \E i \in 1..Len(front) : front[i] = x THEN front ELSE Append(front, x)

RECURSIVE Concat(_, _)
\* the ids of the lines of the files `names`, file after file
Concat(names, dir) ==
    IF names = <<>> THEN <<>>
    ELSE LET content == IF Head(names) \in DOMAIN dir THEN dir[Head(names)] ELSE <<>>
         IN [i \in 1..Len(content) |-> content[i].id] \o Concat(Tail(names), dir)

OpenedNames == [i \in 1..Len(opened) |-> opened[i].name]

\* the lines on disk: files in the order they were opened, lines in file order
FileOrder == Concat(Distinct(OpenedNames), fs)

\* the place of a line in the order of acceptance
AcceptedAt(id) == CHOOSE i \in 1..Len(accepted) : accepted[i] = id

OnDisk(id) == \E n \in DOMAIN fs : \E i \in 1..Len(fs[n]) : fs[n][i].id = id

\* C1: the lines appear in the log files (files in the order they were opened,
\* lines in file order) in the order in which their submits were accepted.
C1_FilesKeepAcceptanceOrder ==
    \A i, j \in 1..Len(FileOrder) :
        i < j => AcceptedAt(FileOrder[i]) < AcceptedAt(FileOrder[j])

InBuffer(id) ==
    current_file.open /\ \E i \in 1..Len(current_file.buf) : current_file.buf[i].id = id

\* C2: a line that was accepted into the queue and that the worker has finished
\* with is in a log file (or still in the open writer), unless the worker died.
C2_NoLineIsDropped ==
    \A id \in processed : OnDisk(id) \/ InBuffer(id) \/ ~alive

\* the text between the last "-" of a file name and its ".jsonl"
IndexText(name) ==
    LET dash == CHOOSE i \in 1..Len(name) :
                    name[i] = "-" /\ \A j \in (i + 1)..Len(name) : name[j] # "-"
    IN SubSeq(name, dash + 1, Len(name) - Len(JsonlExt))

TwoDigitIndex(name) ==
    /\ EndsWith(name, JsonlExt)
    /\ Len(IndexText(name)) = 2
    /\ IsDigit(IndexText(name)[1]) /\ IsDigit(IndexText(name)[2])

NameIndex(name) == DigitValue(IndexText(name)[1]) * 10 + DigitValue(IndexText(name)[2])

Ids(content) == [i \in 1..Len(content) |-> content[i].id]

IsLastLineOf(id, name) ==
    /\ name \in DOMAIN fs
    /\ fs[name] # <<>>
    /\ fs[name][Len(fs[name])].id = id

\* three lines of 80 bytes with their newline, max_file_size 200, handled back to
\* back with no I/O failure
ThreeLinesBackToBack ==
    /\ cfg.max_file_size = 200 /\ lim.len = 79
    /\ cfg.timeout_secs = 1 /\ now <= Timeout
    /\ faults = 0
    /\ Len(accepted) = 3 /\ Cardinality(processed) = 3

\* the size rule, for the line handled last: it rotates exactly when
\* current_size + len(line) + 1 >= max_file_size; a rotation moves to index
\* (index + 1) mod 100, opens the file of that index, restarts the byte count and
\* appends the line there; otherwise the line goes to the file that was open
SizeRuleFollowed ==
    last.checked =>
        /\ last.rot <=> (last.sizeAtCheck + last.lineSize >= cfg.max_file_size)
        /\ (last.rot /\ alive) =>
            /\ file_index = (last.indexAtCheck + 1) % IndexModulus
            /\ current_file.open
            /\ current_file.file_index = file_index
            /\ NameIndex(current_file.name) = file_index
            /\ current_file.name = last.target
            /\ current_file.current_size = IF last.appended THEN last.lineSize ELSE 0
            /\ last.written => IsLastLineOf(last.id, current_file.name)
        /\ ~last.rot =>
            /\ file_index = last.indexAtCheck
            /\ current_file.open
            /\ current_file.name = last.nameAtCheck
            /\ current_file.current_size =
                   last.sizeAtCheck + (IF last.appended THEN last.lineSize ELSE 0)
            /\ last.written => IsLastLineOf(last.id, last.nameAtCheck)

\* lines 1 and 2 in the index-00 file and line 3 in the index-01 file
ScenarioOutcome ==
    ThreeLinesBackToBack =>
        \E a, b \in DOMAIN fs :
            /\ NameIndex(a) = 0 /\ Ids(fs[a]) = <<accepted[1], accepted[2]>>
            /\ NameIndex(b) = 1 /\ Ids(fs[b]) = <<accepted[3]>>

\* the k-th open of the engine targets a file it has not opened before
OpensNewFile(k) == \A i \in 1..(k - 1) : opened[i].name # opened[k].name

\* the file a size rotation opens is a new one
RotationOpensNewFile == (last.rot /\ alive) => OpensNewFile(Len(opened))

\* C3: a line that reaches the size check rotates the file exactly when
\* current_size + len(line) + 1 >= max_file_size; a rotation moves to index
\* (index + 1) mod 100, opens a new file of that index, restarts the byte count
\* and appends the line there; otherwise the line goes to the file that was open
\* and nothing rotates.  With max_file_size 200, three 80-byte lines handled back
\* to back put lines 1 and 2 in the index-00 file and line 3 in the index-01 file.
C3_SizeRotation == SizeRuleFollowed /\ RotationOpensNewFile /\ ScenarioOutcome

\* C4: a file closed by a size rotation is smaller than max_file_size plus the
\* size of the last line written to it.
C4_ClosedFileBelowLimitPlusLine ==
    (last.rot /\ last.closedLastBytes > 0) =>
        last.closedSize < cfg.max_file_size + last.closedLastBytes

\* the file that was open when the worker took the line it handled last
LastOpenedBefore ==
    LET n == Len(opened) - (IF last.lazy THEN 1 ELSE 0) - (IF last.rot /\ alive THEN 1 ELSE 0)
    IN opened[n].name

\* the idle rule, for the line handled last once it is past the directory
\* creation: it closes the open file exactly when more than the timeout has
\* passed since the last write; it then opens a file of index 0 whatever the
\* index was (or the open fails and the worker dies); otherwise the open file
\* stays and the index is not reset
IdleRuleFollowed ==
    (last.id # 0 /\ last.dirOk) =>
        /\ last.idle <=> last.timedOut
        /\ (last.idle /\ alive) =>
            /\ last.lazy
            /\ last.lazyIndex = 0
            /\ NameIndex(last.lazyName) = 0
        /\ (last.openBefore /\ ~last.timedOut) =>
            /\ ~last.lazy
            /\ last.nameAtCheck = LastOpenedBefore
            /\ file_index \in {last.indexBefore, (last.indexBefore + 1) % IndexModulus}

\* the file opened after an idle rotation is a new one
IdleOpensNewFile ==
    (last.idle /\ alive) => OpensNewFile(Len(opened) - (IF last.rot THEN 1 ELSE 0))

\* C5: with a file open and more than the timeout passed since the last write,
\* the next line closes that file and opens a new file of index 0, whatever the
\* index was; with no more than the timeout passed the file stays open and the
\* index is not reset.
C5_IdleRotation == IdleRuleFollowed /\ IdleOpensNewFile

\* C6: file_index stays in 0..99, every file name carries a two-digit index, and
\* a size rotation at index 99 with no idle rotation goes to index 0.
C6_IndexStaysBelowHundred ==
    /\ file_index \in 0..(IndexModulus - 1)
    /\ current_file.open => current_file.file_index \in 0..(IndexModulus - 1)
    /\ \A i \in 1..Len(opened) : TwoDigitIndex(opened[i].name)
    /\ (last.rot /\ ~last.idle /\ last.indexAtCheck = IndexModulus - 1) => file_index = 0

C6_Witness ==
    /\ last.rot /\ ~last.idle /\ last.indexAtCheck = IndexModulus - 1
    /\ file_index = 0
    /\ NameIndex(current_file.name) = 0

\* C10: every open of the engine targets a name it has not opened before.
C10_OpenedNamesAreUnique ==
    \A i, j \in 1..Len(opened) : i < j => opened[i].name # opened[j].name

(***************************************************************************)
(* The timestamp a file name carries, read off its first 19 characters     *)
(* (YYYY-MM-DD_HH-MM-SS) without the program's parser.                     *)
(***************************************************************************)
HasTimestamp(name) ==
    /\ Len(name) >= 19
    /\ \A i \in {1, 2, 3, 4, 6, 7, 9, 10, 12, 13, 15, 16, 18, 19} : IsDigit(name[i])
    /\ name[5] = "-" /\ name[8] = "-" /\ name[11] = "_"
    /\ name[14] = "-" /\ name[17] = "-"

EmbeddedSec(name) ==
    LET num(i) == DigitValue(name[i]) * 10 + DigitValue(name[i + 1])
    IN (num(9) - 1) * SecsPerDay + num(12) * SecsPerHour + num(15) * 60 + num(18)

EngineNamed(name) == HasTimestamp(name) /\ TwoDigitIndex(name)

\* C7: with retention W > 0, a sweep that examines every entry and whose deletes
\* succeed removes exactly the engine-named files whose embedded timestamp is
\* older than now - W.
C7_SweepDeletesExactlyTheOld ==
    (/\ sweep.pc = "done" /\ sweep.started
     /\ sweep.stoppedBy = "end" /\ sweep.failed = {}) =>
        deleted = {n \in sweep.listed \ subdirs :
                      /\ EngineNamed(n)
                      /\ EmbeddedSec(n) * TicksPerSec < sweep.now - Threshold}

\* C8: the sweeper's parser reads from every file name the engine generates the
\* time the name was made from.
C8_NamesParseBack ==
    \A i \in 1..Len(opened) : ParseLogFilename(opened[i].name) = Some(opened[i].sec)

\* C9: a sweep deletes only .jsonl files whose name carries a timestamp, and only
\* under a retention above 0; it stops only at the end of the directory or at an
\* entry it cannot read, so after a failed delete it goes on to the other entries.
C9_SweepSparesWhatItCannotDate ==
    /\ \A n \in deleted :
        /\ cfg.log_retention_hours > 0
        /\ EndsWith(n, JsonlExt)
        /\ HasTimestamp(n)
    /\ cfg.log_retention_hours <= 0 => ~sweep.started
    /\ sweep.started =>
        /\ sweep.failed \subseteq sweep.examined
        /\ sweep.examined \cup sweep.pending = sweep.listed
    /\ (sweep.pc = "done" /\ sweep.started) =>
        /\ sweep.stoppedBy \in {"end", "next_entry"}
        /\ sweep.stoppedBy = "end" => sweep.examined = sweep.listed

C9_Witness ==
    /\ sweep.pc = "done" /\ sweep.started /\ sweep.stoppedBy = "end"
    /\ cfg.log_retention_hours > 0
    /\ {NotesName, NoDateName, TextName, AgedName(48)} \subseteq sweep.examined
    /\ {NotesName, NoDateName, TextName} \subseteq DOMAIN fs

(***************************************************************************)
(* The channel between the handlers and the worker.                        *)
(***************************************************************************)
\* the handler of event i waits in send() for room in the channel
Suspended(i) ==
    /\ alive
    /\ ~HasRoom(queue)
    /\ \E h \in handlers : h.id = i

WasAccepted(i) == \E k \in 1..Len(accepted) : accepted[k] = i

\* C11: the channel never holds more than 100 lines; while it is full and the
\* worker lives no submit completes, neither accepted nor failed; and a submit
\* that waits is accepted in the end.
C11_FullQueueSuspendsSubmit ==
    /\ [](Len(queue) <= ChannelCapacity)
    /\ [][(alive /\ Len(queue) = ChannelCapacity) =>
             (handlers \subseteq handlers' /\ accepted' = accepted)]_vars
    /\ \A i \in LateIds : Suspended(i) ~> WasAccepted(i)

C11_Witness ==
    /\ Len(queue) = ChannelCapacity
    /\ handlers # {}
    /\ Len(accepted) > ChannelCapacity
    /\ \A h \in handlers : Suspended(h.id)

(***************************************************************************)
(* Two topics on one log directory.                                        *)
(***************************************************************************)
PeerNames == {peer.opened[i].name : i \in 1..Len(peer.opened)}

OwnNames == {opened[i].name : i \in 1..Len(opened)}

\* C12: with two different topics on the same log directory, no file is opened
\* by the workers of both, and every file holds lines of one topic only.
C12_TopicsShareNoFile ==
    peer.topic # cfg.topic =>
        /\ OwnNames \cap PeerNames = {}
        /\ \A n \in DOMAIN fs : \A i, j \in 1..Len(fs[n]) :
               (fs[n][i].id > 0) = (fs[n][j].id > 0)

Polls == nextMsg' # nextMsg \/ client'.errors # client.errors

\* C14: run_client polls only after its subscribe succeeded; after a failed
\* subscribe it has stopped and never polls, spawns or submits anything, while
\* the pipeline of another topic can still handle its lines; a poll error
\* leaves the loop polling, with another poll possible; and the loop is left
\* only by the abort at shutdown.
C14_PollsOnlyAfterSubscribe ==
    /\ [](client.sub = "failed" =>
            /\ client.pc = "stopped"
            /\ nextMsg = 0 /\ client.errors = 0
            /\ handlers = {} /\ client.tasks = {} /\ accepted = <<>>)
    /\ [][Polls => (client.sub = "ok" /\ client.pc = "polling")]_vars
    /\ []((client.pc = "stopped" /\ peer.lines < MaxPeerLines) => ENABLED PeerStep)
    /\ [][client'.errors # client.errors => client'.pc = "polling"]_vars
    /\ []((client.pc = "polling" /\ client.errors > 0 /\ nextMsg < lim.msgs) =>
            ENABLED (\E kind \in OtherEvents : PollOther(kind)))
    /\ [][(client.pc = "polling" /\ client'.pc # "polling") => client'.pc = "aborted"]_vars

\* the subscribe failed, and the pipeline of the other topic handled a line
C14_Witness == client.sub = "failed" /\ peer.lines > 0 /\ peer.cf.open

\* C15: the poll loop does not wait for the tasks it spawned: while the
\* channel is full and tasks are suspended in their submit, the loop can
\* still take the next event and spawn its task.
C15_PollingNeverWaitsForHandlers ==
    (client.pc = "polling" /\ Len(queue) = ChannelCapacity /\ handlers # {}
        /\ nextMsg < lim.msgs) => ENABLED Dispatch

\* the channel is full, and a second task was spawned while the first was suspended
C15_Witness == Len(queue) = ChannelCapacity /\ Cardinality(handlers) = 2

Abs(n) == IF n < 0 THEN 0 - n ELSE n

\* the second a timestamp denotes when magnitudes below 1e11 count seconds
\* and all others milliseconds, in units of 10^5 seconds
SecondsByMagnitude(ts) == IF Abs(ts) < MsThreshold THEN ts * 1000 ELSE ts

\* C16: for every JSON payload with a numeric timestamp t, the line's ext
\* carries t read as seconds when |t| < 1e11 and as milliseconds (t / 1000)
\* otherwise, t = 1e11 and negative t included.
C16_TimestampUnitByMagnitude ==
    \A i \in DOMAIN client.lines :
        LET payload == client.lines[i].payload
        IN  (payload.json /\ payload.ts.some) =>
                client.lines[i].ext.timestamp = Some(SecondsByMagnitude(payload.ts.val))

\* ids of the tasks still to submit, and of the lines the channel accepted
Submitting == {h.id : h \in handlers}
Submitted == {accepted[k] : k \in DOMAIN accepted}

\* C17: a payload that is not JSON still gives one submitted line, and that
\* line is {"ext":{},"raw":{"message":"json parse failed"}}; every Publish
\* leads to exactly one submit, and every other event to none.
C17_OneLinePerDataMessage ==
    /\ \A i \in DOMAIN client.lines :
           /\ (i \in Submitting) # (i \in Submitted)
           /\ Cardinality({k \in DOMAIN accepted : accepted[k] = i}) <= 1
           /\ ~client.lines[i].payload.json =>
                  /\ client.lines[i].ext = [timestamp |-> None]
                  /\ client.lines[i].raw.value = None
                  /\ client.lines[i].raw.message =
                         <<"j", "s", "o", "n", " ", "p", "a", "r", "s", "e", " ",
                           "f", "a", "i", "l", "e", "d">>
    /\ \A i \in 1..nextMsg :
           i \notin DOMAIN client.lines => i \notin Submitting \cup Submitted

\* the worker has taken a line and finished with it
Handled == processed' # processed

\* C18: when create_dir_all fails for a line, the worker keeps the open file,
\* file_index and current_size as they were, writes nothing, stays alive
\* and takes the line off the queue, so that the next line is handled by a
\* further iteration that calls create_dir_all again.
C18_MkdirFailureSkipsTheLine ==
    [][(Handled /\ ~last'.dirOk) =>
          /\ current_file' = current_file
          /\ file_index' = file_index
          /\ opened' = opened
          /\ fs' = fs
          /\ alive'
          /\ queue' = Tail(queue)]_vars

\* the line after one whose create_dir_all failed has been written
C18_Witness == last.retried /\ last.dirOk /\ last.written /\ OnDisk(last.id)

\* the line is in a file of the directory
OnDiskIn(dir, id) == \E n \in DOMAIN dir : \E i \in 1..Len(dir[n]) : dir[n][i].id = id

\* the lines of this topic that are in the files, with their places
OwnLinesOnDisk ==
    {<<n, i, fs[n][i].id>> : <<n, i>> \in
        {<<m, k>> \in (DOMAIN fs) \X (1..MaxFaultMsgs) : k <= Len(fs[m]) /\ fs[m][k].id > 0}}

\* C19: a failed open of a log file, at the lazy open or at the size rotation,
\* ends the worker: the lines of the queue are dropped unwritten, nothing of
\* this topic is written afterwards, a later submit ends with an error and
\* never waits, and the poll loop and the worker of the other topic can
\* still take their steps.
C19_OpenFailureHaltsTheWorker ==
    /\ [](last.openFailed => ~alive)
    /\ [][(Handled /\ ~alive') =>
            /\ queue' = <<>>
            /\ \A k \in 2..Len(queue) : ~OnDiskIn(fs', queue[k].id)]_vars
    /\ [][~alive => (~alive' /\ OwnLinesOnDisk' = OwnLinesOnDisk
                       /\ queue' = queue /\ accepted' = accepted)]_vars
    /\ []((~alive /\ handlers # {}) => \A h \in handlers : ENABLED Submit(h))
    /\ []((~alive /\ nextMsg < lim.msgs /\ Cardinality(handlers) < lim.inflight) =>
            ENABLED Dispatch)
    /\ []((~alive /\ peer.lines < MaxPeerLines) => ENABLED PeerStep)

\* an open failed with a line waiting in the queue, and a submit made after
\* that has ended without being accepted
C19_Witness ==
    /\ last.openFailed
    /\ \E id \in Submitted : id \notin processed
    /\ \E id \in 1..nextMsg : id \notin Submitting \cup Submitted

\* C20: as long as no call has failed, between two lines the current_size
\* of the open file is the size the file has on disk, whatever opens and
\* rotations came before, opens of an existing name included.
C20_CounterMatchesDiskSize ==
    (faults = 0 /\ current_file.open) =>
        /\ current_file.name \in DOMAIN fs
        /\ current_file.current_size = DiskSize(fs[current_file.name])

====
